---- MODULE Spec2Model ----
(***************************************************************************)
(* HoneycombReversi (src/src/App.jsx, the CPU-capable component that       *)
(* starts at line 334): the rules engine on the hexagonal board, the React *)
(* state of the HoneycombReversi component, its event handlers, its two    *)
(* effects and the setTimeout callback of executeCPUMove.                  *)
(*                                                                         *)
(* A board key is the template string `${q},${r},${s}` in the source; it   *)
(* is modelled by the tuple <<q, r, s>>.  A coordinate is the object       *)
(* {q, r, s}, modelled by the record [q, r, s].                            *)
(***************************************************************************)
EXTENDS Integers, Sequences, FiniteSets, Bags, TLC

\* ------------------------------------------------------------------ bounds
\* Board replacements (human and CPU placements) and resetGame / backToMenu
\* invocations explored in one run.
MaxEvents == 5
\* While fewer than WideMoves such events have happened the human tries
\* the first MaxChoices cells of validMoves, afterwards the first one only.
WideMoves == 1
MaxChoices == 3
\* Pending CPU-move delays beyond which the human of GameSpec waits.
MaxPending == 2

\* ------------------------------------------------------- coordinate module
Abs(x) == IF x < 0 THEN -x ELSE x

Max3(a, b, c) ==
  LET m == IF a >= b THEN a ELSE b IN IF m >= c THEN m ELSE c

cubeAdd(a, b) == [q |-> a.q + b.q, r |-> a.r + b.r, s |-> a.s + b.s]

cubeDistance(coord) == Max3(Abs(coord.q), Abs(coord.r), Abs(coord.s))

directions ==
  << [q |-> 1,  r |-> -1, s |-> 0],
     [q |-> 1,  r |-> 0,  s |-> -1],
     [q |-> 0,  r |-> 1,  s |-> -1],
     [q |-> -1, r |-> 1,  s |-> 0],
     [q |-> -1, r |-> 0,  s |-> 1],
     [q |-> 0,  r |-> -1, s |-> 1] >>

BOARD_RADIUS == 4

\* The check without its third comparison.
isInBounds_WithoutS(coord) ==
  /\ Abs(coord.q) <= BOARD_RADIUS
  /\ Abs(coord.r) <= BOARD_RADIUS

isInBounds(coord) ==
  /\ Abs(coord.q) <= BOARD_RADIUS
  /\ Abs(coord.r) <= BOARD_RADIUS
  /\ Abs(coord.s) <= BOARD_RADIUS

\* `${q},${r},${s}`
KeyOf(coord) == <<coord.q, coord.r, coord.s>>

\* moveKey.split(',').map(Number), destructured into {q, r, s}
ParseKey(key) == [q |-> key[1], r |-> key[2], s |-> key[3]]

\* null as the value of lastMove and as the result of selectCPUMove
Null == <<>>

\* null as the value of gameMode (no mode selected, the menu is shown)
NoMode == "none"

opponentOf(player) == IF player = "black" THEN "white" ELSE "black"

\* ------------------------------------------------------------- board model
\* A Map is modelled by a function whose domain is the set of keys present.
MapSet(m, key, val) ==
  [k \in (DOMAIN m) \cup {key} |-> IF k = key THEN val ELSE m[k]]

createInitialBoard ==
  LET b0 == MapSet(<<>>, <<0, 0, 0>>, "white")
      b1 == MapSet(b0, <<1, -1, 0>>, "black")
      b2 == MapSet(b1, <<0, 1, -1>>, "black")
      b3 == MapSet(b2, <<-1, 0, 1>>, "black")
      b4 == MapSet(b3, <<-1, 1, 0>>, "white")
      b5 == MapSet(b4, <<1, 0, -1>>, "white")
  IN  MapSet(b5, <<0, -1, 1>>, "white")

\* ------------------------------------------------------------- move engine
\* The while loop of findFlipsInDirection: `current` is the cell under
\* inspection, `flips` the keys pushed so far.
\* The loop returning the keys collected so far, instead of [], when the walk
\* ends on an empty cell or leaves the board.
RECURSIVE findFlipsLoop_KeepRun(_, _, _, _, _)
findFlipsLoop_KeepRun(current, flips, direction, player, currentBoard) ==
  IF ~isInBounds(current) THEN flips
  ELSE LET key == KeyOf(current) IN
       IF key \notin DOMAIN currentBoard THEN flips
       ELSE IF currentBoard[key] = player THEN flips
       ELSE findFlipsLoop_KeepRun(cubeAdd(current, direction), Append(flips, key),
                                  direction, player, currentBoard)

RECURSIVE findFlipsLoop(_, _, _, _, _)
findFlipsLoop(current, flips, direction, player, currentBoard) ==
  IF ~isInBounds(current) THEN << >>
  ELSE LET key == KeyOf(current) IN
       IF key \notin DOMAIN currentBoard THEN << >>
       ELSE IF currentBoard[key] = player THEN flips
       ELSE findFlipsLoop(cubeAdd(current, direction), Append(flips, key),
                          direction, player, currentBoard)

findFlipsInDirection(coord, direction, player, currentBoard) ==
  findFlipsLoop(cubeAdd(coord, direction), << >>, direction, player, currentBoard)

RECURSIVE getFlipsLoop(_, _, _, _, _)
getFlipsLoop(i, allFlips, coord, player, currentBoard) ==
  IF i > Len(directions) THEN allFlips
  ELSE LET flips == findFlipsInDirection(coord, directions[i], player, currentBoard)
       IN  getFlipsLoop(i + 1,
                        IF Len(flips) > 0 THEN allFlips \o flips ELSE allFlips,
                        coord, player, currentBoard)

\* getFlips without the currentBoard.has(key) early return.
getFlips_NoOccupiedCheck(coord, player, currentBoard) ==
  getFlipsLoop(1, << >>, coord, player, currentBoard)

getFlips(coord, player, currentBoard) ==
  IF KeyOf(coord) \in DOMAIN currentBoard THEN << >>
  ELSE getFlipsLoop(1, << >>, coord, player, currentBoard)

\* The (q, r) pairs of the two nested for loops, in iteration order.
LoopCoords ==
  LET n == 2 * BOARD_RADIUS + 1 IN
  [i \in 1..(n * n) |->
     LET q == ((i - 1) \div n) - BOARD_RADIUS
         r == ((i - 1) % n) - BOARD_RADIUS
     IN  [q |-> q, r |-> r, s |-> (-q) - r]]

\* The Set returned by calculateValidMoves, as the sequence of its keys in
\* insertion order (the order Array.from and for-of observe): the loop adds
\* the key of every in-bounds coordinate with a non-empty getFlips.
\* The loop with `flips.length >= 0` in place of `flips.length > 0`.
movesLoop_AnyFlipCount(coords, player, currentBoard) ==
  SelectSeq(coords, LAMBDA coord :
                      /\ isInBounds(coord)
                      /\ Len(getFlips(coord, player, currentBoard)) >= 0)

movesLoop(coords, player, currentBoard) ==
  SelectSeq(coords, LAMBDA coord :
                      /\ isInBounds(coord)
                      /\ Len(getFlips(coord, player, currentBoard)) > 0)

calculateValidMoves(player, currentBoard) ==
  LET kept == movesLoop(LoopCoords, player, currentBoard)
  IN  [i \in 1..Len(kept) |-> KeyOf(kept[i])]

Range(seq) == {seq[i] : i \in DOMAIN seq}

\* validMoves.has(key)
SetHas(moves, key) == key \in Range(moves)

\* The count with every occupied cell counted for white.
calculateScores_CountCells(currentBoard) ==
  [black |-> Cardinality({k \in DOMAIN currentBoard : currentBoard[k] = "black"}),
   white |-> Cardinality(DOMAIN currentBoard)]

calculateScores(currentBoard) ==
  [black |-> Cardinality({k \in DOMAIN currentBoard : currentBoard[k] = "black"}),
   white |-> Cardinality({k \in DOMAIN currentBoard : currentBoard[k] # "black"})]

\* newBoard = new Map(board); newBoard.set(key, player);
\* flips.forEach(flipKey => newBoard.set(flipKey, player))
RECURSIVE setAll(_, _, _, _)
setAll(m, flips, i, player) ==
  IF i > Len(flips) THEN m ELSE setAll(MapSet(m, flips[i], player), flips, i + 1, player)

placeOn(currentBoard, key, flips, player) ==
  setAll(MapSet(currentBoard, key, player), flips, 1, player)

\* ---------------------------------------------------------- move evaluator
CPU_DIFFICULTY == [EASY |-> "easy", NORMAL |-> "normal", HARD |-> "hard"]

evaluatePosition(q, r, s) ==
  LET distance == cubeDistance([q |-> q, r |-> r, s |-> s]) IN
  IF distance = BOARD_RADIUS THEN 10
  ELSE IF distance = BOARD_RADIUS - 1 THEN 5
  ELSE IF distance = 0 THEN 3
  ELSE 1

\* -Infinity
NegInfinity == -1000000

\* Scores are kept as twice their value in the source, so that the 0.5 of
\* evaluateFutureState stays an integer: -opponentMoves.size * 0.5 is
\* -Len(opponentMoves) here.
evaluateFutureState(coord, player, currentBoard) ==
  LET key == KeyOf(coord)
      flips == getFlips(coord, player, currentBoard)
      newBoard == placeOn(currentBoard, key, flips, player)
      opponent == opponentOf(player)
      opponentMoves == calculateValidMoves(opponent, newBoard)
  IN  -Len(opponentMoves)

\* evaluateMove with HARD's future term subtracted: more replies score higher.
evaluateMove_RepliesRewarded(coord, player, currentBoard, difficulty) ==
  LET flips == getFlips(coord, player, currentBoard) IN
  IF Len(flips) = 0 THEN NegInfinity
  ELSE LET positionValue == evaluatePosition(coord.q, coord.r, coord.s)
           flipCount == Len(flips)
       IN  CASE difficulty = CPU_DIFFICULTY.EASY -> 2 * flipCount
             [] difficulty = CPU_DIFFICULTY.NORMAL -> 2 * (flipCount * 2 + positionValue)
             [] difficulty = CPU_DIFFICULTY.HARD ->
                  2 * (flipCount * 3 + positionValue * 2)
                    - evaluateFutureState(coord, player, currentBoard)
             [] OTHER -> 2 * flipCount

\* Twice the part of evaluateMove's result that does not come from
\* Math.random().
evaluateMove(coord, player, currentBoard, difficulty) ==
  LET flips == getFlips(coord, player, currentBoard) IN
  IF Len(flips) = 0 THEN NegInfinity
  ELSE LET positionValue == evaluatePosition(coord.q, coord.r, coord.s)
           flipCount == Len(flips)
       IN  CASE difficulty = CPU_DIFFICULTY.EASY -> 2 * flipCount
             [] difficulty = CPU_DIFFICULTY.NORMAL -> 2 * (flipCount * 2 + positionValue)
             [] difficulty = CPU_DIFFICULTY.HARD ->
                  2 * (flipCount * 3 + positionValue * 2)
                    + evaluateFutureState(coord, player, currentBoard)
             [] OTHER -> 2 * flipCount

\* Twice the factor of Math.random() in evaluateMove: the random term lies in
\* [0, randomSpan).
randomSpan(difficulty) ==
  CASE difficulty = CPU_DIFFICULTY.EASY -> 20
    [] difficulty = CPU_DIFFICULTY.NORMAL -> 6
    [] OTHER -> 0

\* The loop with >= in place of >: the last of several best candidates wins.
RECURSIVE selectLoop_LastOnTies(_, _, _, _, _, _, _)
selectLoop_LastOnTies(i, bestMove, bestScore, movesArray, player, currentBoard, difficulty) ==
  IF i > Len(movesArray) THEN bestMove
  ELSE LET moveKey == movesArray[i]
           score == evaluateMove(ParseKey(moveKey), player, currentBoard, difficulty)
       IN  IF score >= bestScore
           THEN selectLoop_LastOnTies(i + 1, moveKey, score, movesArray, player,
                                      currentBoard, difficulty)
           ELSE selectLoop_LastOnTies(i + 1, bestMove, bestScore, movesArray, player,
                                      currentBoard, difficulty)

\* The for loop of selectCPUMove when no score has a random term.
RECURSIVE selectLoop(_, _, _, _, _, _, _)
selectLoop(i, bestMove, bestScore, movesArray, player, currentBoard, difficulty) ==
  IF i > Len(movesArray) THEN bestMove
  ELSE LET moveKey == movesArray[i]
           score == evaluateMove(ParseKey(moveKey), player, currentBoard, difficulty)
       IN  IF score > bestScore
           THEN selectLoop(i + 1, moveKey, score, movesArray, player, currentBoard, difficulty)
           ELSE selectLoop(i + 1, bestMove, bestScore, movesArray, player, currentBoard, difficulty)

\* The values selectCPUMove can return.  With a random term r_i in [0, 1) per
\* candidate, candidate i ends the loop as bestMove for some draw of the r's
\* iff every other candidate's fixed part is below i's fixed part plus the
\* span (take r_i close to 1 and the others 0).
selectCPUMove(validMovesArg, player, currentBoard, difficulty) ==
  LET movesArray == validMovesArg
      span == randomSpan(difficulty)
      base(i) == evaluateMove(ParseKey(movesArray[i]), player, currentBoard, difficulty)
  IN  IF Len(movesArray) = 0 THEN {Null}
      ELSE IF span = 0
      THEN {selectLoop(1, Null, NegInfinity, movesArray, player, currentBoard, difficulty)}
      ELSE LET winners ==
                 {i \in DOMAIN movesArray :
                    /\ base(i) > NegInfinity
                    /\ \A j \in DOMAIN movesArray \ {i} : base(j) < base(i) + span}
           IN  IF winners = {} THEN {Null} ELSE {movesArray[i] : i \in winners}

\* ------------------------------------------------ evaluator and the heap
\* The Maps of the evaluator as objects: a heap is the sequence of the Maps
\* allocated so far and a reference is an index into it.  Each operator below
\* yields the heap its function leaves behind, the Map it was passed being at
\* reference currentBoard.

\* evaluateFutureState with newBoard being the Map it was passed, not a copy.
evaluateFutureStateHeap_Alias(heap, currentBoard, coord, player) ==
  LET key == KeyOf(coord)
      flips == getFlips(coord, player, heap[currentBoard])
      newBoard == currentBoard
  IN  [heap EXCEPT ![newBoard] = placeOn(heap[newBoard], key, flips, player)]

\* const newBoard = new Map(currentBoard); newBoard.set(key, player);
\* flips.forEach(flipKey => newBoard.set(flipKey, player))
evaluateFutureStateHeap(heap, currentBoard, coord, player) ==
  LET key == KeyOf(coord)
      flips == getFlips(coord, player, heap[currentBoard])
      allocated == Append(heap, heap[currentBoard])
      newBoard == Len(allocated)
  IN  [allocated EXCEPT ![newBoard] = placeOn(allocated[newBoard], key, flips, player)]

\* evaluateMove calls evaluateFutureState for a move with flips at HARD only.
evaluateMoveHeap(heap, currentBoard, coord, player, difficulty) ==
  IF Len(getFlips(coord, player, heap[currentBoard])) = 0 THEN heap
  ELSE IF difficulty = CPU_DIFFICULTY.HARD
  THEN evaluateFutureStateHeap(heap, currentBoard, coord, player)
  ELSE heap

\* selectCPUMove evaluates the candidates in order.
RECURSIVE selectLoopHeap(_, _, _, _, _, _)
selectLoopHeap(i, heap, currentBoard, movesArray, player, difficulty) ==
  IF i > Len(movesArray) THEN heap
  ELSE selectLoopHeap(i + 1,
                      evaluateMoveHeap(heap, currentBoard, ParseKey(movesArray[i]),
                                       player, difficulty),
                      currentBoard, movesArray, player, difficulty)

selectCPUMoveHeap(heap, currentBoard, validMovesArg, player, difficulty) ==
  selectLoopHeap(1, heap, currentBoard, validMovesArg, player, difficulty)

\* ------------------------------------------------------ component state
VARIABLES
  board,          \* useState(createInitialBoard())
  currentPlayer,  \* useState('black')
  validMoves,     \* useState(new Set()), keys in insertion order
  gameOver,       \* useState(false)
  scores,         \* useState({ black: 3, white: 4 })
  gameMode,       \* useState(null): NoMode, "pvp" or "cpu"
  cpuDifficulty,  \* useState(CPU_DIFFICULTY.HARD)
  cpuThinking,    \* useState(false)
  lastMove,       \* useState(null)
  timers,         \* the bag of pending setTimeout callbacks of
                  \* executeCPUMove; each holds the board and cpuDifficulty
                  \* its closure captured, and whether a resetGame happened
                  \* while it was pending
  nEvents,        \* events counted by the next-state relation
  lastEvt         \* the event handled last and what it did

vars == <<board, currentPlayer, validMoves, gameOver, scores, gameMode,
          cpuDifficulty, cpuThinking, lastMove, timers, nEvents, lastEvt>>

\* What the handlers read and write: everything but the event counter.
progVars == <<board, currentPlayer, validMoves, gameOver, scores, gameMode,
              cpuDifficulty, cpuThinking, lastMove, timers, lastEvt>>

\* The state the effects read and write.
View ==
  [board |-> board, currentPlayer |-> currentPlayer, validMoves |-> validMoves,
   gameOver |-> gameOver, gameMode |-> gameMode, cpuDifficulty |-> cpuDifficulty,
   cpuThinking |-> cpuThinking, timers |-> timers]

\* Which state values differ (Object.is) from the previous render.
NoChange ==
  [board |-> FALSE, currentPlayer |-> FALSE, validMoves |-> FALSE,
   gameOver |-> FALSE, gameMode |-> FALSE, cpuDifficulty |-> FALSE]

\* executeCPUMove up to and including the setTimeout call, run in the render
\* whose state is st.
executeCPUMove(st) ==
  IF st.gameMode # "cpu" \/ st.currentPlayer # "white" \/ st.gameOver THEN st
  ELSE [st EXCEPT !.cpuThinking = TRUE,
                  !.timers = @ (+) SetToBag({[board |-> st.board,
                                              cpuDifficulty |-> st.cpuDifficulty,
                                              abandoned |-> FALSE]})]

\* The effect that only recomputes validMoves: a player without moves keeps
\* the turn and the game never ends.
validMovesEffect_RecomputeOnly(st) ==
  IF st.gameMode = NoMode THEN st
  ELSE LET moves == calculateValidMoves(st.currentPlayer, st.board)
       IN  [st EXCEPT !.validMoves = moves]

\* The effect without setGameOver(true).
validMovesEffect_NoGameOver(st) ==
  IF st.gameMode = NoMode THEN st
  ELSE LET moves == calculateValidMoves(st.currentPlayer, st.board)
           withMoves == [st EXCEPT !.validMoves = moves]
       IN  IF Len(moves) = 0
           THEN LET opponent == opponentOf(st.currentPlayer)
                    opponentMoves == calculateValidMoves(opponent, st.board)
                IN  IF Len(opponentMoves) = 0
                    THEN withMoves
                    ELSE [withMoves EXCEPT !.currentPlayer = opponent]
           ELSE withMoves

\* The effect without setCurrentPlayer(opponent): a player without moves keeps
\* the turn.
validMovesEffect_NoPass(st) ==
  IF st.gameMode = NoMode THEN st
  ELSE LET moves == calculateValidMoves(st.currentPlayer, st.board)
           withMoves == [st EXCEPT !.validMoves = moves]
       IN  IF Len(moves) = 0
           THEN LET opponent == opponentOf(st.currentPlayer)
                    opponentMoves == calculateValidMoves(opponent, st.board)
                IN  IF Len(opponentMoves) = 0
                    THEN [withMoves EXCEPT !.gameOver = TRUE]
                    ELSE withMoves
           ELSE withMoves

\* useEffect(..., [currentPlayer, board, gameMode]): the state updates it
\* queues, applied to st.
validMovesEffect(st) ==
  IF st.gameMode = NoMode THEN st
  ELSE LET moves == calculateValidMoves(st.currentPlayer, st.board)
           withMoves == [st EXCEPT !.validMoves = moves]
       IN  IF Len(moves) = 0
           THEN LET opponent == opponentOf(st.currentPlayer)
                    opponentMoves == calculateValidMoves(opponent, st.board)
                IN  IF Len(opponentMoves) = 0
                    THEN [withMoves EXCEPT !.gameOver = TRUE]
                    ELSE [withMoves EXCEPT !.currentPlayer = opponent]
           ELSE withMoves

\* useEffect(..., [gameMode, currentPlayer, gameOver, validMoves, executeCPUMove])
cpuTurnEffect(st) ==
  IF /\ st.gameMode = "cpu"
     /\ st.currentPlayer = "white"
     /\ ~st.gameOver
     /\ Len(st.validMoves) > 0
  THEN executeCPUMove(st)
  ELSE st

\* React's commit loop after a batch of state updates: render, run the effects
\* whose dependencies changed (both read the state of that render), apply the
\* updates they queued as one batch, and render again until nothing changes.
RECURSIVE Settle(_, _)
Settle(st, chg) ==
  LET e1Run == chg.currentPlayer \/ chg.board \/ chg.gameMode
      \* identity of the useCallback result executeCPUMove
      execChg == \/ chg.gameMode \/ chg.currentPlayer \/ chg.gameOver
                 \/ chg.board \/ chg.cpuDifficulty
      e2Run == \/ chg.gameMode \/ chg.currentPlayer \/ chg.gameOver
               \/ chg.validMoves \/ execChg
      a == IF e1Run THEN validMovesEffect(st) ELSE st
      b == IF e2Run THEN cpuTurnEffect(st) ELSE st
      next == [a EXCEPT !.cpuThinking = b.cpuThinking, !.timers = b.timers]
      nchg == [NoChange EXCEPT
                 !.currentPlayer = (next.currentPlayer # st.currentPlayer),
                 !.gameOver = (next.gameOver # st.gameOver),
                 \* setValidMoves always receives a fresh Set
                 !.validMoves = (e1Run /\ st.gameMode # NoMode)]
  IN  IF ~(e1Run \/ e2Run) THEN st ELSE Settle(next, nchg)

\* The state after the component has mounted: both effects ran once, the
\* first returned early (no gameMode), the second found currentPlayer black.
Init ==
  /\ board = createInitialBoard
  /\ currentPlayer = "black"
  /\ validMoves = << >>
  /\ gameOver = FALSE
  /\ scores = [black |-> 3, white |-> 4]
  /\ gameMode = NoMode
  /\ cpuDifficulty = CPU_DIFFICULTY.HARD
  /\ cpuThinking = FALSE
  /\ lastMove = Null
  /\ timers = EmptyBag
  /\ nEvents = 0
  /\ lastEvt = [op |-> "mount", key |-> Null, applied |-> FALSE, abandoned |-> FALSE]

\* Commit the settled state.
Commit(st) ==
  /\ board' = st.board
  /\ currentPlayer' = st.currentPlayer
  /\ validMoves' = st.validMoves
  /\ gameOver' = st.gameOver
  /\ gameMode' = st.gameMode
  /\ cpuDifficulty' = st.cpuDifficulty
  /\ cpuThinking' = st.cpuThinking
  /\ timers' = st.timers

CommitOf(settled) == \E st \in {settled} : Commit(st)

Evt(op, key, applied, abandoned) ==
  [op |-> op, key |-> key, applied |-> applied, abandoned |-> abandoned]

\* Menu button: onClick={() => setGameMode(mode)}
SelectMode(mode) ==
  /\ gameMode = NoMode
  /\ CommitOf(Settle([View EXCEPT !.gameMode = mode],
                   [NoChange EXCEPT !.gameMode = TRUE]))
  /\ lastEvt' = Evt("selectMode", Null, FALSE, FALSE)
  /\ UNCHANGED <<scores, lastMove>>

\* The difficulty buttons (onClick={() => setCpuDifficulty(value)}) sit in a
\* panel styled display: 'none', so no user event reaches setCpuDifficulty and
\* cpuDifficulty keeps its initial value.

\* Cells a click is tried on besides the legal ones: an occupied cell, an
\* empty corner cell and a coordinate outside the board.
ProbeKeys == { <<0, 0, 0>>, <<4, -4, 0>>, <<5, -5, 0>> }

ChoiceCount == IF nEvents < WideMoves THEN MaxChoices ELSE 1

ClickKeys ==
  {validMoves[i] : i \in {k \in DOMAIN validMoves : k <= ChoiceCount}} \cup ProbeKeys

\* The early returns without the return on the CPU's turn.
clickRejected_NoCpuTurnCheck(key) ==
  \/ gameOver \/ cpuThinking
  \/ ~SetHas(validMoves, key)

\* handleCellClick(q, r, s); the board is only rendered once a mode is chosen.
\* The early returns without `if (!validMoves.has(key)) return`.
clickRejected_NoLegalityCheck(key) ==
  \/ gameOver \/ cpuThinking
  \/ (gameMode = "cpu" /\ currentPlayer = "white")

\* The three early returns of handleCellClick.
clickRejected(key) ==
  \/ gameOver \/ cpuThinking
  \/ (gameMode = "cpu" /\ currentPlayer = "white")
  \/ ~SetHas(validMoves, key)

handleCellClick(q, r, s) ==
  LET key == KeyOf([q |-> q, r |-> r, s |-> s])
      coord == [q |-> q, r |-> r, s |-> s]
      rejected == clickRejected(key)
      flips == getFlips(coord, currentPlayer, board)
      newBoard == placeOn(board, key, flips, currentPlayer)
  IN  /\ gameMode # NoMode
      /\ IF rejected
         THEN UNCHANGED progVars
         ELSE /\ CommitOf(Settle([View EXCEPT !.board = newBoard,
                                            !.currentPlayer = opponentOf(currentPlayer)],
                               [NoChange EXCEPT !.board = TRUE, !.currentPlayer = TRUE]))
              /\ scores' = calculateScores(newBoard)
              /\ lastMove' = key
              /\ lastEvt' = Evt("click", key, TRUE, FALSE)

\* The setTimeout callback of executeCPUMove: the pending callback t expires.
\* It reads board and cpuDifficulty from the closure of the executeCPUMove that
\* scheduled it.
cpuTimeout(t) ==
  LET rest == timers (-) SetToBag({t})
      currentValidMoves == calculateValidMoves("white", t.board)
  IN  IF Len(currentValidMoves) = 0
      THEN /\ cpuThinking' = FALSE
           /\ timers' = rest
           /\ lastEvt' = Evt("timeout", Null, FALSE, t.abandoned)
           /\ UNCHANGED <<board, currentPlayer, validMoves, gameOver, scores,
                          gameMode, cpuDifficulty, lastMove>>
      ELSE \E moveKey \in selectCPUMove(currentValidMoves, "white", t.board, t.cpuDifficulty) :
             IF moveKey # Null
             THEN LET coord == ParseKey(moveKey)
                      flips == getFlips(coord, "white", t.board)
                      newBoard == placeOn(t.board, moveKey, flips, "white")
                  IN  /\ CommitOf(Settle([View EXCEPT !.board = newBoard,
                                                    !.currentPlayer = "black",
                                                    !.cpuThinking = FALSE,
                                                    !.timers = rest],
                                       [NoChange EXCEPT !.board = TRUE,
                                                        !.currentPlayer = (currentPlayer # "black")]))
                      /\ scores' = calculateScores(newBoard)
                      /\ lastMove' = moveKey
                      /\ lastEvt' = Evt("timeout", moveKey, TRUE, t.abandoned)
             ELSE /\ cpuThinking' = FALSE
                  /\ timers' = rest
                  /\ lastEvt' = Evt("timeout", Null, FALSE, t.abandoned)
                  /\ UNCHANGED <<board, currentPlayer, validMoves, gameOver, scores,
                                 gameMode, cpuDifficulty, lastMove>>

\* No clearTimeout exists: the callbacks pending at a reset stay pending.
Abandon(ts) ==
  LET marked == {[t EXCEPT !.abandoned = TRUE] : t \in BagToSet(ts)}
  IN  [a \in marked |-> CopiesIn(a, ts) + CopiesIn([a EXCEPT !.abandoned = FALSE], ts)]

\* resetGame without setCurrentPlayer('black').
resetUpdates_KeepPlayer ==
  [View EXCEPT !.board = createInitialBoard,
               !.gameOver = FALSE,
               !.cpuThinking = FALSE,
               !.timers = Abandon(timers)]

\* The state updates of resetGame, applied to the current state.
resetUpdates ==
  [View EXCEPT !.board = createInitialBoard,
               !.currentPlayer = "black",
               !.gameOver = FALSE,
               !.cpuThinking = FALSE,
               !.timers = Abandon(timers)]

resetChange ==
  [NoChange EXCEPT !.board = TRUE,
                   !.currentPlayer = (currentPlayer # "black"),
                   !.gameOver = gameOver]

resetGame ==
  /\ gameMode # NoMode
  /\ CommitOf(Settle(resetUpdates, resetChange))
  /\ scores' = [black |-> 3, white |-> 4]
  /\ lastMove' = Null
  /\ lastEvt' = Evt("resetGame", Null, FALSE, FALSE)

backToMenu ==
  /\ gameMode # NoMode
  /\ CommitOf(Settle([resetUpdates EXCEPT !.gameMode = NoMode],
                   [resetChange EXCEPT !.gameMode = TRUE]))
  /\ scores' = [black |-> 3, white |-> 4]
  /\ lastMove' = Null
  /\ lastEvt' = Evt("backToMenu", Null, FALSE, FALSE)

\* A step that leaves the program state alone (a rejected click) is not counted.
Tally == nEvents' = IF progVars' = progVars THEN nEvents ELSE nEvents + 1

Next ==
  \/ \E mode \in {"pvp", "cpu"} : SelectMode(mode) /\ UNCHANGED nEvents
  \/ /\ nEvents < MaxEvents
     /\ \E key \in ClickKeys : handleCellClick(key[1], key[2], key[3]) /\ Tally
  \/ /\ nEvents < MaxEvents
     /\ \E t \in BagToSet(timers) : cpuTimeout(t) /\ Tally
  \/ nEvents < MaxEvents /\ resetGame /\ Tally
  \/ nEvents < MaxEvents /\ backToMenu /\ Tally

Spec == Init /\ [][Next]_vars

\* The name the game-over banner puts before "no kachi!" (rendered only while
\* gameOver): "anata" (you) or "kuro" (black), "CPU" or "shiro" (white),
\* "hikiwake" (draw).
gameOverMessage(sc, mode) ==
  IF sc.black > sc.white THEN (IF mode = "cpu" THEN "anata" ELSE "kuro")
  ELSE IF sc.white > sc.black THEN (IF mode = "cpu" THEN "CPU" ELSE "shiro")
  ELSE "hikiwake"

\* ------------------------------------------------- games played to the end
\* The cells of one complete game per mode, in the order they are played.  In
\* "pvp" the human clicks them for both colours; in "cpu" the human clicks
\* black's cells and white's cells are the replies selectCPUMove gives.  Both
\* games contain turns that pass and end by a move of white.
GameRecord ==
  [pvp |-> << <<-2, 1, 1>>, <<-3, 2, 1>>, <<2, -1, -1>>, <<1, 1, -2>>,
              <<1, 2, -3>>, <<3, -2, -1>>, <<3, -1, -2>>, <<1, 3, -4>>,
              <<3, -3, 0>>, <<4, -1, -3>>, <<3, 0, -3>>, <<4, -3, -1>>,
              <<-1, -1, 2>>, <<-2, -1, 3>>, <<3, -4, 1>>, <<2, 1, -3>> >>,
   cpu |-> << <<-2, 1, 1>>, <<-3, 2, 1>>, <<1, 1, -2>>, <<2, 1, -3>>,
              <<1, 2, -3>>, <<0, 3, -3>>, <<1, 3, -4>>, <<2, -1, -1>>,
              <<-1, 4, -3>>, <<1, -2, 1>>, <<2, -3, 1>>, <<3, 0, -3>>,
              <<3, 1, -4>>, <<1, -3, 2>>, <<1, -4, 3>>, <<4, -1, -3>> >>]

\* The cell the human clicks: the one the record holds for the number of
\* pieces on the board (each placement adds one piece to the opening's seven).
GameKeys ==
  IF gameMode = NoMode THEN {}
  ELSE LET n == Cardinality(DOMAIN board) - 6
       IN  IF n \in DOMAIN GameRecord[gameMode]
           THEN {GameRecord[gameMode][n]} ELSE {}

\* The human clicks only while fewer than MaxPending delays are pending.
GameNext ==
  \/ \E mode \in {"pvp", "cpu"} : SelectMode(mode) /\ UNCHANGED nEvents
  \/ /\ BagCardinality(timers) < MaxPending
     /\ \E key \in GameKeys : handleCellClick(key[1], key[2], key[3]) /\ UNCHANGED nEvents
  \/ \E t \in BagToSet(timers) : cpuTimeout(t) /\ UNCHANGED nEvents

GameSpec == Init /\ [][GameNext]_vars

\* A complete game against the CPU that ends by a click of black, with no
\* turn passing: black's cells are clicked, white's are selectCPUMove's replies.
RushRecord ==
  << <<2, 0, -2>>, <<0, 2, -2>>, <<-2, 2, 0>>, <<-2, 1, 1>>, <<-2, 0, 2>>,
     <<-3, 2, 1>>, <<-1, -1, 2>>, <<3, 0, -3>>, <<0, 3, -3>>, <<-3, 3, 0>>,
     <<-4, 4, 0>>, <<-3, 4, -1>>, <<4, 0, -4>>, <<-2, 3, -1>>, <<-2, 4, -2>>,
     <<-1, 3, -2>>, <<-4, 3, 1>>, <<-3, 0, 3>>, <<-4, 0, 4>> >>

RushKeys ==
  LET n == Cardinality(DOMAIN board) - 6
  IN  IF gameMode = "cpu" /\ n \in DOMAIN RushRecord THEN {RushRecord[n]} ELSE {}

\* The human plays RushRecord against the CPU, clicking while fewer than
\* MaxPending delays are pending; every pending delay may expire.
RushNext ==
  \/ SelectMode("cpu") /\ UNCHANGED nEvents
  \/ /\ BagCardinality(timers) < MaxPending
     /\ \E key \in RushKeys : handleCellClick(key[1], key[2], key[3]) /\ UNCHANGED nEvents
  \/ \E t \in BagToSet(timers) : cpuTimeout(t) /\ UNCHANGED nEvents

RushSpec == Init /\ [][RushNext]_vars

\* The cells the three recorded games hold for the number of pieces on the
\* board, whichever the mode.
CalmKeys ==
  IF gameMode = NoMode THEN {}
  ELSE LET n == Cardinality(DOMAIN board) - 6
       IN  {rec[n] : rec \in {g \in {GameRecord.pvp, GameRecord.cpu, RushRecord} :
                                n \in DOMAIN g}}

\* The human plays along the recorded games and clicks only when no CPU-move
\* delay is pending; every pending delay may expire.
CalmNext ==
  \/ \E mode \in {"pvp", "cpu"} : SelectMode(mode) /\ UNCHANGED nEvents
  \/ /\ timers = EmptyBag
     /\ \E key \in CalmKeys : handleCellClick(key[1], key[2], key[3]) /\ UNCHANGED nEvents
  \/ \E t \in BagToSet(timers) : cpuTimeout(t) /\ UNCHANGED nEvents

CalmSpec == Init /\ [][CalmNext]_vars

\* ------------------------------------------------------------ properties
Players == {"black", "white"}

Count(b, player) == Cardinality({k \in DOMAIN b : b[k] = player})

\* The player whose piece the event recorded in lastEvt' places.
MoverOfStep == IF lastEvt'.op = "timeout" THEN "white" ELSE currentPlayer

\* A board replacement by a move: an accepted click or an applied CPU move.
MoveStep == lastEvt'.applied

\* C1: the expiry of a CPU-move delay that was pending when resetGame or
\* backToMenu ran changes none of board, scores, currentPlayer, lastMove and
\* gameOver.
C1_AbandonedDelayHasNoEffect ==
  [][(lastEvt'.op = "timeout" /\ lastEvt'.abandoned)
       => UNCHANGED <<board, scores, currentPlayer, lastMove, gameOver>>]_vars

\* C2: whenever a CPU move is applied, white is the player to move, the placed
\* coordinate is a legal move of white on the board being replaced, and the new
\* board is that board with the coordinate and its flips set to white.
C2_CpuMoveLegalOnCurrentBoard ==
  [][(lastEvt'.op = "timeout" /\ lastEvt'.applied)
       => LET k == lastEvt'.key IN
          /\ currentPlayer = "white"
          /\ SetHas(calculateValidMoves("white", board), k)
          /\ board' = placeOn(board, k, getFlips(ParseKey(k), "white", board), "white")]_vars

\* C3: handling one event schedules at most one CPU-move delay, so no turn of
\* white has two delays pending, and a CPU move is applied only on a turn of
\* white (one board replacement per turn).
C3_OneDelayPerTurn ==
  [][/\ BagCardinality(timers') <= BagCardinality(timers) + 1
     /\ (lastEvt'.op = "timeout" /\ lastEvt'.applied) => currentPlayer = "white"]_vars

\* Coordinates the engine is questioned about: every triple whose q and r lie
\* within one cell beyond the board and whose s is on, or one off, the plane
\* q + r + s = 0.
CoordRange == (-(BOARD_RADIUS + 1))..(BOARD_RADIUS + 1)

TestCoords ==
  {[q |-> q, r |-> r, s |-> (-q) - r + e] : q \in CoordRange, r \in CoordRange, e \in {-1, 0, 1}}

\* The cells of the plane within one cell beyond the board.
PlaneCoords == {c \in TestCoords : c.q + c.r + c.s = 0 /\ cubeDistance(c) <= BOARD_RADIUS + 1}

OnBoard(c) == c.q + c.r + c.s = 0 /\ cubeDistance(c) <= 4

\* C4: for the current board and each player, a coordinate is in
\* calculateValidMoves iff it is on the board (q + r + s = 0 and
\* max(|q|,|r|,|s|) <= 4) and getFlips is non-empty for it; no legal move is an
\* occupied cell or lies outside the board.
C4_LegalIffFlips ==
  \A p \in Players :
    LET legal == Range(calculateValidMoves(p, board)) IN
    /\ \A c \in TestCoords :
         (KeyOf(c) \in legal) <=> (OnBoard(c) /\ getFlips(c, p, board) # << >>)
    /\ \A k \in legal :
         /\ ParseKey(k) \in TestCoords
         /\ k \notin DOMAIN board
         /\ OnBoard(ParseKey(k))

\* A position where the occupied-cell rule decides: some occupied cell would
\* capture in some direction if it were empty, and the player has legal moves.
C4_Witness ==
  /\ lastEvt.applied
  /\ \E p \in Players :
       /\ calculateValidMoves(p, board) # << >>
       /\ \E k \in DOMAIN board :
            \E i \in DOMAIN directions :
              findFlipsInDirection(ParseKey(k), directions[i], p, board) # << >>

\* origin + n * d
Step(origin, d, n) == [q |-> origin.q + n * d.q, r |-> origin.r + n * d.r, s |-> origin.s + n * d.s]

HoldsAt(b, c, player) == isInBounds(c) /\ KeyOf(c) \in DOMAIN b /\ b[KeyOf(c)] = player

\* Length of the maximal run of opponent cells origin + d, origin + 2d, ...
RunLength(origin, d, p, b) ==
  CHOOSE n \in 0..(2 * BOARD_RADIUS + 1) :
    /\ \A i \in 1..n : HoldsAt(b, Step(origin, d, i), opponentOf(p))
    /\ ~HoldsAt(b, Step(origin, d, n + 1), opponentOf(p))

\* C5: findFlipsInDirection returns the maximal run of opponent cells after
\* origin in direction d when the cell after the run is on the board and holds
\* p, and the empty sequence when the run is followed by an empty cell or by
\* the edge of the board.
C5_ChainBoundedByOwnPiece ==
  \A p \in Players : \A origin \in PlaneCoords : \A i \in DOMAIN directions :
    LET d == directions[i]
        n == RunLength(origin, d, p, board)
        result == findFlipsInDirection(origin, d, p, board)
    IN  IF HoldsAt(board, Step(origin, d, n + 1), p)
        THEN result = [j \in 1..n |-> KeyOf(Step(origin, d, j))]
        ELSE result = << >>

\* A position with a run of opponent cells that reaches the edge of the board,
\* and another run of at least one cell that is closed by the player's piece.
C5_Witness ==
  \E p \in Players : \E origin \in PlaneCoords : \E i \in DOMAIN directions :
    LET d == directions[i]
        n == RunLength(origin, d, p, board)
    IN  /\ n >= 1
        /\ ~isInBounds(Step(origin, d, n + 1))
        /\ findFlipsInDirection(origin, d, p, board) = << >>
        /\ \E o2 \in PlaneCoords : \E i2 \in DOMAIN directions :
             Len(findFlipsInDirection(o2, directions[i2], p, board)) >= 1

\* directions concatenated in order
FlatFlips(c, p, b) ==
  findFlipsInDirection(c, directions[1], p, b) \o findFlipsInDirection(c, directions[2], p, b)
    \o findFlipsInDirection(c, directions[3], p, b) \o findFlipsInDirection(c, directions[4], p, b)
    \o findFlipsInDirection(c, directions[5], p, b) \o findFlipsInDirection(c, directions[6], p, b)

\* C6: getFlips is empty for an occupied coordinate, otherwise the
\* concatenation of findFlipsInDirection over the six directions; every cell
\* it returns is on the board, holds the opponent, differs from the coordinate
\* and occurs once.
C6_GetFlips ==
  \A p \in Players : \A c \in PlaneCoords :
    LET f == getFlips(c, p, board) IN
    /\ KeyOf(c) \in DOMAIN board => f = << >>
    /\ KeyOf(c) \notin DOMAIN board => f = FlatFlips(c, p, board)
    /\ \A i \in DOMAIN f :
         /\ HoldsAt(board, ParseKey(f[i]), opponentOf(p))
         /\ f[i] # KeyOf(c)
         /\ \A j \in DOMAIN f : f[j] = f[i] => j = i

\* A position where an empty cell captures in two directions at once and an
\* occupied cell has a capturable run next to it.
C6_Witness ==
  \E p \in Players :
    /\ \E c \in PlaneCoords :
         /\ KeyOf(c) \notin DOMAIN board
         /\ Cardinality({i \in DOMAIN directions :
                           findFlipsInDirection(c, directions[i], p, board) # << >>}) >= 2
    /\ \E c \in PlaneCoords :
         /\ KeyOf(c) \in DOMAIN board
         /\ FlatFlips(c, p, board) # << >>

\* C7: a click on a coordinate outside the current legal-move set (occupied,
\* off the board, or capturing nothing) changes none of board, scores,
\* currentPlayer, validMoves, gameOver and lastMove: every click that changes
\* the state is on a key of validMoves.
C7_IllegalClickRejected ==
  [][(lastEvt'.op = "click" /\ ~SetHas(validMoves, lastEvt'.key))
       => UNCHANGED <<board, scores, currentPlayer, validMoves, gameOver, lastMove>>]_vars

\* A position of a running game in which the human may click (no early return
\* for gameOver, cpuThinking or the CPU's turn) and the three kinds of illegal
\* cell are all on offer: an occupied cell, an empty cell capturing nothing and
\* a coordinate off the board; a move was accepted before.
C7_Witness ==
  /\ gameMode # NoMode /\ ~gameOver /\ ~cpuThinking
  /\ ~(gameMode = "cpu" /\ currentPlayer = "white")
  /\ lastEvt.op = "click" /\ lastEvt.applied
  /\ \E k \in ClickKeys \ Range(validMoves) : k \in DOMAIN board
  /\ \E k \in ClickKeys \ Range(validMoves) :
       k \notin DOMAIN board /\ isInBounds(ParseKey(k))
  /\ \E k \in ClickKeys \ Range(validMoves) : ~isInBounds(ParseKey(k))

\* C8: a board replacement by a move of player p never lowers the number of
\* p's pieces on the board and never raises the number of the opponent's.
C8_CountsMonotone ==
  [][MoveStep
       => /\ Count(board', MoverOfStep) >= Count(board, MoverOfStep)
          /\ Count(board', opponentOf(MoverOfStep)) <= Count(board, opponentOf(MoverOfStep))]_vars

\* C9: an accepted move of player p at c with F = getFlips(c, p, board) turns c
\* and the cells of F into p and leaves every other cell as it was; F is not
\* empty, p gains 1 + |F| pieces and the opponent loses |F|.
C9_ExactPlacement ==
  [][MoveStep
       => LET p == MoverOfStep
              k == lastEvt'.key
              F == getFlips(ParseKey(k), p, board)
          IN  /\ Len(F) >= 1
              /\ DOMAIN board' = (DOMAIN board) \cup {k}
              /\ \A x \in DOMAIN board' :
                   board'[x] = IF x = k \/ x \in Range(F) THEN p ELSE board[x]
              /\ Count(board', p) = Count(board, p) + 1 + Len(F)
              /\ Count(board', opponentOf(p)) = Count(board, opponentOf(p)) - Len(F)]_vars

\* The opening position as the claim spells it out.
OpeningBoard ==
  [k \in { <<0, 0, 0>>, <<-1, 1, 0>>, <<1, 0, -1>>, <<0, -1, 1>>,
           <<1, -1, 0>>, <<0, 1, -1>>, <<-1, 0, 1>> } |->
     IF k \in { <<1, -1, 0>>, <<0, 1, -1>>, <<-1, 0, 1>> } THEN "black" ELSE "white"]

\* C10: right after resetGame (also when backToMenu calls it) the board is the
\* 7-cell opening, scores are black 3 / white 4, gameOver is false and black is
\* to move; after the reset button, once the effects have run, validMoves is
\* the non-empty set of black's legal moves on that board.
C10_ResetYieldsOpening ==
  [][(lastEvt'.op \in {"resetGame", "backToMenu"})
       => /\ board' = OpeningBoard
          /\ scores' = [black |-> 3, white |-> 4]
          /\ ~gameOver'
          /\ currentPlayer' = "black"
          /\ lastEvt'.op = "resetGame"
               => /\ validMoves' # << >>
                  /\ validMoves' = calculateValidMoves("black", OpeningBoard)]_vars

\* resetGame pressed in the middle of a game against the CPU, after at least
\* two placements, with white to move and a CPU-move delay pending.
C10_Witness ==
  /\ lastEvt.op = "resetGame"
  /\ \E t \in BagToSet(timers) :
       /\ t.abandoned
       /\ Count(t.board, "black") + Count(t.board, "white") >= 9
  /\ board = OpeningBoard

\* The player the handler of the step hands the turn to, before the effects run.
TurnGiven ==
  IF MoveStep THEN opponentOf(MoverOfStep)
  ELSE IF lastEvt'.op = "selectMode" THEN currentPlayer
  ELSE "black"

\* The boards the handler of the step can have written: the placement on the
\* current board for a click, the placement on the board captured by a pending
\* callback for a CPU move, the opening for a reset, the board itself otherwise.
WrittenBoards ==
  LET k == lastEvt'.key IN
  IF lastEvt'.op = "click"
  THEN {placeOn(board, k, getFlips(ParseKey(k), currentPlayer, board), currentPlayer)}
  ELSE IF lastEvt'.op = "timeout" /\ lastEvt'.applied
  THEN {placeOn(t.board, k, getFlips(ParseKey(k), "white", t.board), "white") :
          t \in BagToSet(timers)}
  ELSE IF lastEvt'.op \in {"resetGame", "backToMenu"} THEN {createInitialBoard}
  ELSE {board}

ResultOf(name) ==
  IF name \in {"anata", "kuro"} THEN "black"
  ELSE IF name \in {"CPU", "shiro"} THEN "white"
  ELSE "draw"

ScoreRange == 0..3

\* C12: in a started game whose board leaves neither player a legal move
\* gameOver is true and the banner names black when scores.black >
\* scores.white, white when scores.white > scores.black and a draw when they
\* are equal; the banner does so for every pair of scores.
C12_EndOfGame ==
  /\ (/\ gameMode # NoMode
      /\ calculateValidMoves("black", board) = << >>
      /\ calculateValidMoves("white", board) = << >>)
       => /\ gameOver
          /\ ResultOf(gameOverMessage(scores, gameMode)) =
               (IF scores.black > scores.white THEN "black"
                ELSE IF scores.white > scores.black THEN "white" ELSE "draw")
  /\ \A b \in ScoreRange : \A w \in ScoreRange : \A mode \in {"pvp", "cpu"} :
       LET result == ResultOf(gameOverMessage([black |-> b, white |-> w], mode)) IN
       /\ b > w => result = "black"
       /\ w > b => result = "white"
       /\ b = w => result = "draw"

\* The game against the CPU has ended by a move of white: neither side can
\* move, gameOver is set and the banner names the CPU.
C12_Witness ==
  /\ gameMode = "cpu" /\ gameOver
  /\ lastEvt.op = "timeout" /\ lastEvt.applied
  /\ calculateValidMoves("black", board) = << >>
  /\ calculateValidMoves("white", board) = << >>
  /\ scores.white > scores.black
  /\ gameOverMessage(scores, gameMode) = "CPU"

\* C13: gameOver is true only while neither black nor white has a legal move
\* on the current board.
C13_GameOverOnlyWithoutMoves ==
  gameOver => /\ calculateValidMoves("black", board) = << >>
              /\ calculateValidMoves("white", board) = << >>

\* C14: in every reachable state scores.black is the number of cells of the
\* current board holding black and scores.white the number holding white, so
\* that their sum is the number of occupied cells.
C14_ScoresMatchBoard ==
  /\ scores.black = Count(board, "black")
  /\ scores.white = Count(board, "white")
  /\ scores.black + scores.white = Cardinality(DOMAIN board)

\* A CPU move has been applied and the scores differ from the opening's.
C14_Witness ==
  /\ lastEvt.op = "timeout" /\ lastEvt.applied
  /\ scores.black + scores.white >= 9
  /\ scores.black # 3

\* The number of cells of the hexagon of radius BOARD_RADIUS: 61.
CellCount == 3 * BOARD_RADIUS * (BOARD_RADIUS + 1) + 1

\* C15: in every reachable state every key of the board is a cube coordinate
\* with q + r + s = 0 and max(|q|, |r|, |s|) <= BOARD_RADIUS, its value is
\* "black" or "white", and the board holds at most 61 pieces, the number of
\* such coordinates.
C15_BoardInvariant ==
  /\ \A k \in DOMAIN board :
       /\ k[1] + k[2] + k[3] = 0
       /\ Max3(Abs(k[1]), Abs(k[2]), Abs(k[3])) <= BOARD_RADIUS
       /\ board[k] \in Players
  /\ CellCount = 61
  /\ Cardinality({i \in DOMAIN LoopCoords : isInBounds(LoopCoords[i])}) = CellCount
  /\ Cardinality(DOMAIN board) <= CellCount

\* A move has just placed a piece on the outermost ring of the board.
C15_Witness ==
  /\ lastEvt.applied
  /\ lastEvt.key \in DOMAIN board
  /\ cubeDistance(ParseKey(lastEvt.key)) = BOARD_RADIUS

\* The HARD scores of the legal moves of p on b, in enumeration order.
HardScores(p, b) ==
  LET moves == calculateValidMoves(p, b)
  IN  [i \in DOMAIN moves |->
         evaluateMove(ParseKey(moves[i]), p, b, CPU_DIFFICULTY.HARD)]

\* selectCPUMove at HARD on board b for player p returns exactly the first
\* of the legal moves whose evaluateMove score is maximal.
FirstBestPicked(p, b) ==
  LET moves == calculateValidMoves(p, b)
      picks == selectCPUMove(moves, p, b, CPU_DIFFICULTY.HARD)
      score == HardScores(p, b)
  IN  moves # << >> =>
        /\ Null \notin picks
        /\ \E i \in DOMAIN moves :
             /\ picks = {moves[i]}
             /\ \A j \in DOMAIN moves : score[j] <= score[i]
             /\ \A j \in 1..(i - 1) : score[j] < score[i]

\* Several legal moves of p on b share the maximal HARD score.
TiedBest(p, b) ==
  LET score == HardScores(p, b)
  IN  \E i \in DOMAIN score : \E j \in DOMAIN score :
        /\ i < j
        /\ score[i] = score[j]
        /\ \A k \in DOMAIN score : score[k] <= score[i]

\* C16: at HARD, for either player's non-empty set of legal moves on every
\* board of the game (the opening and every board a move has written),
\* selectCPUMove has exactly one result (the same on every invocation), never
\* null: a member of the set with maximal evaluateMove score, and the first
\* such member in the set's enumeration order.
C16_HardSelection ==
  (lastEvt.applied \/ board = createInitialBoard) =>
     \A p \in Players : FirstBestPicked(p, board)

\* The CPU has just moved from a position, still held by the second pending
\* callback, in which several of white's moves shared the best score: the
\* cell played is the result of selectCPUMove there.
C16_Witness ==
  /\ lastEvt.op = "timeout" /\ lastEvt.applied
  /\ \E t \in BagToSet(timers) :
       /\ TiedBest("white", t.board)
       /\ selectCPUMove(calculateValidMoves("white", t.board), "white", t.board,
                        CPU_DIFFICULTY.HARD) = {lastEvt.key}
       /\ board = placeOn(t.board, lastEvt.key,
                          getFlips(ParseKey(lastEvt.key), "white", t.board), "white")

Difficulties == {CPU_DIFFICULTY.EASY, CPU_DIFFICULTY.NORMAL, CPU_DIFFICULTY.HARD}

\* The heap after selectCPUMove has run for p's legal moves on b, b being the
\* only Map before the call.
AfterSelect(p, b, difficulty) ==
  selectCPUMoveHeap(<<b>>, 1, calculateValidMoves(p, b), p, difficulty)

\* C17: evaluateMove, evaluateFutureState and selectCPUMove leave the Map they
\* are passed as it was, for either player, every legal move and every
\* difficulty on the game's current board: each hypothetical placement is
\* made on a Map allocated for it.
C17_EvaluatorLeavesBoard ==
  \A p \in Players :
    LET moves == calculateValidMoves(p, board) IN
    /\ \A difficulty \in Difficulties :
         /\ AfterSelect(p, board, difficulty)[1] = board
         /\ \A i \in DOMAIN moves :
              evaluateMoveHeap(<<board>>, 1, ParseKey(moves[i]), p, difficulty)[1] = board
    /\ \A i \in DOMAIN moves :
         LET after == evaluateFutureStateHeap(<<board>>, 1, ParseKey(moves[i]), p)
         IN  /\ after[1] = board
             /\ Len(after) = 2
             /\ after[2] # board

\* The CPU has just moved from a board on which it had several candidates, the
\* board the second pending callback still holds: selecting at HARD made one
\* placement per candidate, each on a Map of its own, and left that board as
\* it was.
C17_Witness ==
  /\ lastEvt.op = "timeout" /\ lastEvt.applied
  /\ \E t \in BagToSet(timers) :
       LET moves == calculateValidMoves("white", t.board)
           after == AfterSelect("white", t.board, CPU_DIFFICULTY.HARD)
       IN  /\ Len(moves) >= 2
           /\ Len(after) = 1 + Len(moves)
           /\ after[1] = t.board
           /\ \A i \in 2..Len(after) : after[i] # t.board
           /\ lastEvt.key \in Range(moves)

\* The in-bounds coordinates at the given distance from the centre.
Ring(distance) ==
  {LoopCoords[i] : i \in {j \in DOMAIN LoopCoords :
                            /\ isInBounds(LoopCoords[j])
                            /\ cubeDistance(LoopCoords[j]) = distance}}

PositionOf(coord) == evaluatePosition(coord.q, coord.r, coord.s)

\* What evaluateMove at HARD weighs for each legal move of p on b: the number
\* of flips, the positional value, the number of replies left to the opponent,
\* and the score itself.
Weighed(p, b) ==
  LET moves == calculateValidMoves(p, b)
  IN  [i \in DOMAIN moves |->
         LET coord == ParseKey(moves[i]) IN
         [flips   |-> Len(getFlips(coord, p, b)),
          pos     |-> PositionOf(coord),
          replies |-> -evaluateFutureState(coord, p, b),
          score   |-> evaluateMove(coord, p, b, CPU_DIFFICULTY.HARD)]]

\* C18: evaluatePosition values the outermost ring above the next ring, that
\* above the centre and the centre above every other cell; and of two legal
\* candidates on the current board evaluateMove at HARD scores strictly
\* higher the one with more flips, with the higher positional value, or with
\* fewer replies left to the opponent, when the other two quantities agree.
C18_QualitativeOrdering ==
  /\ \A a \in Ring(BOARD_RADIUS) : \A b \in Ring(BOARD_RADIUS - 1) :
       PositionOf(a) > PositionOf(b)
  /\ \A b \in Ring(BOARD_RADIUS - 1) : \A c \in Ring(0) :
       PositionOf(b) > PositionOf(c)
  /\ \A c \in Ring(0) : \A d \in Ring(1) \cup Ring(2) :
       PositionOf(c) > PositionOf(d)
  /\ (lastEvt.applied \/ board = createInitialBoard) =>
       \A p \in Players :
         LET w == Weighed(p, board) IN
         \A i \in DOMAIN w : \A j \in DOMAIN w :
           /\ (w[i].flips > w[j].flips /\ w[i].pos = w[j].pos
                 /\ w[i].replies = w[j].replies) => w[i].score > w[j].score
           /\ (w[i].pos > w[j].pos /\ w[i].flips = w[j].flips
                 /\ w[i].replies = w[j].replies) => w[i].score > w[j].score
           /\ (w[i].replies < w[j].replies /\ w[i].flips = w[j].flips
                 /\ w[i].pos = w[j].pos) => w[i].score > w[j].score

\* Two legal moves of p on the current board that differ in flips only, in
\* positional value only, in the opponent's replies only.
CaseFlips(p) ==
  LET w == Weighed(p, board) IN
  \E i \in DOMAIN w : \E j \in DOMAIN w :
    w[i].flips > w[j].flips /\ w[i].pos = w[j].pos /\ w[i].replies = w[j].replies

CasePos(p) ==
  LET w == Weighed(p, board) IN
  \E i \in DOMAIN w : \E j \in DOMAIN w :
    w[i].pos > w[j].pos /\ w[i].flips = w[j].flips /\ w[i].replies = w[j].replies

CaseReplies(p) ==
  LET w == Weighed(p, board) IN
  \E i \in DOMAIN w : \E j \in DOMAIN w :
    w[i].replies < w[j].replies /\ w[i].flips = w[j].flips /\ w[i].pos = w[j].pos

\* Black's click has left white, the CPU, a choice that contains all three
\* cases: pairs of candidates differing in exactly one of the three quantities.
C18_Witness ==
  /\ gameMode = "cpu" /\ currentPlayer = "white" /\ ~gameOver
  /\ lastEvt.op = "click" /\ lastEvt.applied
  /\ CaseFlips("white") /\ CasePos("white") /\ CaseReplies("white")

\* C19: in every state of a started game with gameOver false (the effects
\* having run) the player to move has at least one legal move on the current
\* board.
C19_MoverCanMove ==
  (gameMode # NoMode /\ ~gameOver) => calculateValidMoves(currentPlayer, board) # << >>

\* Two humans play and the click just made left the opponent without a legal
\* move: the turn is back with the player who clicked, who can move again.
C19_Witness ==
  /\ gameMode = "pvp" /\ ~gameOver
  /\ lastEvt.op = "click" /\ lastEvt.applied
  /\ board[lastEvt.key] = currentPlayer
  /\ calculateValidMoves(opponentOf(currentPlayer), board) = << >>
  /\ validMoves # << >>

\* The keys of the board's cells.
CellKeys ==
  {KeyOf(LoopCoords[i]) : i \in {j \in DOMAIN LoopCoords : isInBounds(LoopCoords[j])}}

\* C20: in every state of a started game (the effects having run) validMoves
\* holds exactly the legal moves of the player to move on the current board,
\* and while the game is in progress and the turn is not the CPU's,
\* handleCellClick accepts a coordinate exactly when it is one of those moves.
C20_ValidMovesCurrent ==
  gameMode # NoMode =>
    LET legal == calculateValidMoves(currentPlayer, board) IN
    /\ validMoves = legal
    /\ (~gameOver /\ ~(gameMode = "cpu" /\ currentPlayer = "white")) =>
         \A key \in CellKeys \cup ProbeKeys :
           ~clickRejected(key) <=> key \in Range(legal)

\* C21: a CPU move is applied only while gameMode is "cpu" and white is the
\* player to move, and the piece it places is white; none is applied in "pvp"
\* mode or while no mode is selected.
C21_CpuMovesOnlyForWhiteInCpuMode ==
  [][(lastEvt'.op = "timeout" /\ lastEvt'.applied)
       => /\ gameMode = "cpu"
          /\ currentPlayer = "white"
          /\ board'[lastEvt'.key] = "white"]_vars

\* C22: every change of the board other than by resetGame (also when
\* backToMenu calls it) keeps every occupied cell occupied, adds exactly one
\* newly occupied cell, and is the placement of the mover's piece with its
\* flips on the board it replaces; no applied move is undone by a later one.
C22_BoardOnlyGrows ==
  [][(board' # board /\ lastEvt'.op \notin {"resetGame", "backToMenu"})
       => /\ DOMAIN board \subseteq DOMAIN board'
          /\ Cardinality(DOMAIN board') = Cardinality(DOMAIN board) + 1
          /\ LET k == lastEvt'.key
                 p == MoverOfStep
             IN  board' = placeOn(board, k, getFlips(ParseKey(k), p, board), p)]_vars

\* C23: once gameOver is true, no cell click and no expiry of a CPU-move delay
\* changes board, scores or currentPlayer, and gameOver stays true.
C23_TerminalAbsorbing ==
  [][(gameOver /\ lastEvt'.op \in {"click", "timeout"})
       => /\ UNCHANGED <<board, scores, currentPlayer>>
          /\ gameOver']_vars

\* C24: in CPU mode, while white is the player to move or cpuThinking is true,
\* handleCellClick returns early for every cell, and no click changes board,
\* scores, currentPlayer or lastMove; every click that is applied there is
\* made on black's turn and places a black piece.
C24_NoHumanMoveOutOfTurn ==
  [][gameMode = "cpu" =>
       /\ (currentPlayer = "white" \/ cpuThinking) =>
            /\ \A key \in CellKeys \cup ProbeKeys : clickRejected(key)
            /\ lastEvt'.op = "click" =>
                 UNCHANGED <<board, scores, currentPlayer, lastMove>>
       /\ (lastEvt'.op = "click" /\ lastEvt'.applied) =>
            /\ currentPlayer = "black" /\ ~cpuThinking
            /\ board'[lastEvt'.key] = "black"]_vars

\* The turn has passed back to black while the delay of white's skipped turn
\* is pending: cpuThinking is true and the cell the human clicks next, a legal
\* move of black, is rejected.
C24_Witness ==
  /\ gameMode = "cpu" /\ ~gameOver
  /\ currentPlayer = "black" /\ cpuThinking
  /\ GameKeys # {}
  /\ \A key \in GameKeys : SetHas(validMoves, key) /\ clickRejected(key)

\* A game against the CPU played to the last two empty cells, with no turn
\* passing: black's cells are clicked, white's are selectCPUMove's replies.
LateRecord ==
  << <<2, 0, -2>>, <<0, 2, -2>>, <<-1, -1, 2>>, <<3, 0, -3>>, <<0, 3, -3>>,
     <<-1, -2, 3>>, <<-2, 0, 2>>, <<-3, 0, 3>>, <<-2, 1, 1>>, <<0, 4, -4>>,
     <<-1, -3, 4>>, <<-3, 1, 2>>, <<-4, 0, 4>>, <<-3, -1, 4>>, <<4, 0, -4>>,
     <<0, -2, 2>>, <<-2, -1, 3>>, <<-2, -2, 4>>, <<-4, 2, 2>>, <<-4, 1, 3>>,
     <<0, -3, 3>>, <<0, -4, 4>>, <<-3, 2, 1>>, <<-4, 3, 1>>, <<-1, 2, -1>>,
     <<-1, 3, -2>>, <<-2, 2, 0>>, <<-2, 3, -1>>, <<-1, 4, -3>>, <<-2, 4, -2>>,
     <<-3, 4, -1>>, <<-4, 4, 0>>, <<-3, 3, 0>>, <<2, -2, 0>>, <<1, 2, -3>>,
     <<2, 2, -4>>, <<1, -2, 1>>, <<2, -3, 1>>, <<1, 3, -4>>, <<1, 1, -2>>,
     <<2, 1, -3>>, <<4, -1, -3>>, <<2, -1, -1>>, <<3, -2, -1>>, <<3, 1, -4>>,
     <<3, -1, -2>>, <<1, -3, 2>>, <<2, -4, 2>>, <<4, -2, -2>>, <<4, -3, -1>>,
     <<1, -4, 3>>, <<3, -3, 0>> >>

\* The cell LateRecord holds for the number of pieces on the board and, once
\* the record is played, the two cells it leaves empty.
LateKeys ==
  LET n == Cardinality(DOMAIN board) - 6
  IN  IF gameMode # "cpu" THEN {}
      ELSE IF n \in DOMAIN LateRecord THEN {LateRecord[n]}
      ELSE {<<3, -4, 1>>, <<4, -4, 0>>}

\* The moves a game has room for: the cells the opening leaves empty.
MaxMoves == CellCount - Cardinality(DOMAIN createInitialBoard)

\* nEvents counts the events that replace the board by a different one; the
\* count stops one past MaxMoves.
TallyBoards ==
  nEvents' = IF board' = board \/ nEvents > MaxMoves THEN nEvents ELSE nEvents + 1

\* The human plays LateRecord against the CPU, clicking only when no CPU-move
\* delay is pending, and from the position with two empty cells on clicks
\* while at most MaxPending delays are pending; every pending delay may expire.
\* The board replacements are counted in nEvents.
LateNext ==
  \/ SelectMode("cpu") /\ UNCHANGED nEvents
  \/ /\ \/ timers = EmptyBag
        \/ /\ Cardinality(DOMAIN board) >= CellCount - 2
           /\ BagCardinality(timers) <= MaxPending
     /\ \E key \in LateKeys : handleCellClick(key[1], key[2], key[3]) /\ TallyBoards
  \/ \E t \in BagToSet(timers) : cpuTimeout(t) /\ TallyBoards

\* The marks an expired delay leaves in lastEvt.
TimeoutMarks ==
  {Evt("timeout", k, a, ab) : k \in CellKeys \cup {Null}, a \in BOOLEAN, ab \in BOOLEAN}

\* The expiry of a pending CPU-move delay (the third disjunct of LateNext),
\* told by its mark: it is possible exactly while a delay is pending.
Expiry == timers # EmptyBag /\ lastEvt' \in TimeoutMarks

\* Every setTimeout delay ends after 1000 to 1500 ms: a delay does not stay
\* pending forever. Between two expiries marked alike another event leaves
\* its own mark or the pending delays run out, so fairness of the expiries
\* that change lastEvt is fairness of the expiries.
LateSpec == Init /\ [][LateNext]_vars /\ WF_lastEvt(Expiry)

PieceCounts == 7..CellCount

\* White, the CPU, is to move in a game in progress and has a legal move.
WhiteToMove ==
  /\ gameMode = "cpu" /\ ~gameOver /\ currentPlayer = "white"
  /\ calculateValidMoves("white", board) # << >>

\* Black, the human, is to move against the CPU and has a legal move.
BlackToMove ==
  /\ gameMode = "cpu" /\ ~gameOver /\ currentPlayer = "black"
  /\ calculateValidMoves("black", board) # << >>

\* A click on any of the legal moves in validMoves would be accepted.
ClicksAccepted ==
  /\ validMoves # << >>
  /\ \A i \in DOMAIN validMoves : ~clickRejected(validMoves[i])

\* C25: with every delay ending and no reset, whenever white is to move in
\* CPU mode with a legal move in a game in progress (also after a pass of
\* black), a white move that adds a piece to the board is eventually applied;
\* cpuThinking does not stay true forever; and whenever black is to move with
\* a legal move, a state is reached in which black is to move and a click on
\* a legal cell is accepted.
C25_CpuProgress ==
  /\ \A n \in PieceCounts :
       (Cardinality(DOMAIN board) = n /\ WhiteToMove)
         ~> (/\ lastEvt.op = "timeout" /\ lastEvt.applied
             /\ Cardinality(DOMAIN board) > n)
  /\ cpuThinking ~> ~cpuThinking
  /\ BlackToMove ~> (currentPlayer = "black" /\ ClicksAccepted)

\* C26: in a run without reset a game is over after at most 54 board
\* replacements (the 61 cells less the 7 opening pieces): the board is never
\* replaced a 55th time, and once it has been replaced 54 times gameOver is
\* true, so moves and passes do not go on forever.
C26_GameTerminates ==
  /\ nEvents <= MaxMoves
  /\ nEvents = MaxMoves => gameOver

====
